---- MODULE Spec2Model ----
(***************************************************************************)
(* Patent search: the Express server (POST /search, analyzePatentWithAI,   *)
(* analyzePatentLandscape, getUSPTOData, analysisCache) and the serverless *)
(* function (exports.handler, getUSPTOData, generatePracticalAnalysis).    *)
(*                                                                         *)
(* One deployment runs one of the two variants.  A request is followed     *)
(* from its arrival through every await of its handler to its response;    *)
(* a request may arrive while others are in flight, and the handlers then  *)
(* take their steps in any order.  The external services (patent search,   *)
(* generative AI) answer, fail or stay silent as the environment chooses.  *)
(*                                                                         *)
(* The message of an error that the engine words, a TypeError or the       *)
(* SyntaxError of JSON.parse(event.body), is written as the name of the    *)
(* class of the error.                                                     *)
(***************************************************************************)
EXTENDS Integers, Sequences, FiniteSets, TLC

VARIABLES env, variant, analysisCache, reqs, nreq, used

vars == <<env, variant, analysisCache, reqs, nreq, used>>

(***************************************************************************)
(* Bounds of the model.                                                    *)
(***************************************************************************)
\* number of entries the patent service delivers in a run, in one list or
\* spread over the lists of its answers
MaxBag == 4
\* longest list of the patent service that is drawn from every kind of
\* entry; the longer lists are those OkOutcomes names
MaxMixed == 1
\* number of requests a run serves, in flight together or one after the other
MaxRequests == 2
\* longest keywords string, in characters
MaxKwLen == 1
\* number of pieces of text the generative AI answers the structured prompt
\* with in a run, in one response or spread over its responses
MaxTextLen == 2
\* Math.random() is drawn from RandRange values, spread evenly over [0, 1)
RandRange == 2


(***************************************************************************)
(* JavaScript values.  Every value carries its type tag, so that values of *)
(* different types can be told apart and compared.                         *)
(***************************************************************************)
Undef == [t |-> "undefined"]
Null == [t |-> "null"]
Str(s) == [t |-> "string", v |-> s]
Num(n) == [t |-> "number", v |-> n]
Arr(s) == [t |-> "array", v |-> s]
Bool(b) == [t |-> "boolean", v |-> b]
\* an object: its members r, and their names ks in the order in which
\* for-in, Object.keys and JSON.stringify go through them (the names that
\* are array indices in ascending order, then the other names in the order
\* in which the members were added)
Obj(ks, r) == [t |-> "object", v |-> r, ks |-> ks]
\* {}
EmptyObj == Obj(<<>>, [f \in {} |-> Undef])

\* the numbers Num does not hold: NaN, the two infinities (v their sign),
\* and a number with a fraction or of ten digits and more, which keeps in lit
\* the text Number.prototype.toString writes it with and in v its integer
\* part, cut at 10^9
NaN == [t |-> "number", v |-> 0, nan |-> TRUE]
Infinity(sign) == [t |-> "number", v |-> sign, inf |-> TRUE]
Numeral(int, text) == [t |-> "number", v |-> int, lit |-> text]

\* ToBoolean: what `!x`, `x || y`, `x && y` and `if (x)` test
Truthy(x) ==
  CASE x.t \in {"undefined", "null"} -> FALSE
    [] x.t = "string" -> x.v # ""
    [] x.t = "number" -> "lit" \in DOMAIN x \/ x.v # 0
    [] x.t = "boolean" -> x.v
    [] OTHER -> TRUE

\* a || b
Or(a, b) == IF Truthy(a) THEN a ELSE b

\* a property read a.f cannot be evaluated: a is null or undefined
ReadThrows(a) == a.t \in {"undefined", "null"}

\* a.f for a value a that is not null or undefined
Get(a, f) ==
  IF a.t = "object" /\ f \in DOMAIN a.v THEN a.v[f] ELSE Undef

\* the i-th character of a module string (counted from 1), "" past its ends
Ch(x, i) == IF 1 <= i /\ i <= Len(x) THEN SubSeq(x, i, i) ELSE ""

Min(a, b) == IF a < b THEN a ELSE b

(***************************************************************************)
(* Strings.  A JavaScript string is a sequence of UTF-16 code units.  A    *)
(* module string holds the code units 1 to 126 but 26 and 96 as the        *)
(* character with that code, and every other code unit as the character    *)
(* with code 26 followed by the four hexadecimal digits of the code, in    *)
(* lower case.                                                             *)
(***************************************************************************)
\* the digits of the radixes 2 to 16, in both cases
HexDigits == "0123456789abcdef0123456789ABCDEF"

IsHex(c) == c # "" /\ \E d \in 1..32 : Ch(HexDigits, d) = c

HexValue(c) == ((CHOOSE d \in 1..32 : Ch(HexDigits, d) = c) - 1) % 16

\* the number the digits x[i..j-1] write in the radix, after the digits that
\* wrote acc
RECURSIVE DigitsValue(_, _, _, _, _)
DigitsValue(x, i, j, radix, acc) ==
  IF i >= j THEN acc
  ELSE DigitsValue(x, i + 1, j, radix, radix * acc + HexValue(Ch(x, i)))

\* the characters with code 1 to 31, in the order of their codes
ControlChars == "\t\n\f\r"

\* the character that starts the five characters of a code unit written
\* with its code
Sub == Ch(ControlChars, 26)

\* the code unit with the given code (0 to 65535), as a module string
Unit(code) ==
  IF 1 <= code /\ code <= 31 /\ code # 26 THEN Ch(ControlChars, code)
  ELSE IF 32 <= code /\ code <= 95
    THEN Ch(" !\"#$%&'()*+,-./0123456789:;<=>?@ABCDEFGHIJKLMNOPQRSTUVWXYZ[\\]^_",
            code - 31)
  ELSE IF 97 <= code /\ code <= 126
    THEN Ch("abcdefghijklmnopqrstuvwxyz{|}~", code - 96)
  ELSE Sub \o Ch(HexDigits, (code \div 4096) + 1)
           \o Ch(HexDigits, ((code \div 256) % 16) + 1)
           \o Ch(HexDigits, ((code \div 16) % 16) + 1)
           \o Ch(HexDigits, (code % 16) + 1)

\* the code of the code unit that x[i..i+4] writes, -1 when x[i] starts no
\* code unit written with its code
CodeAt(x, i) ==
  IF Ch(x, i) = Sub /\ i + 4 <= Len(x) THEN DigitsValue(x, i + 1, i + 5, 16, 0)
  ELSE 0 - 1

\* s.length: the number of code units
Length(x) == Len(x) - 4 * Cardinality({i \in 1..Len(x) : Ch(x, i) = Sub})

\* s.substring(0, n): the first n code units
Prefix(x, n) ==
  IF Length(x) <= n THEN x
  ELSE SubSeq(x, 1,
              CHOOSE j \in 0..Len(x) :
                /\ \A k \in 0..3 : Ch(x, j - k) # Sub
                /\ j - 4 * Cardinality({i \in 1..j : Ch(x, i) = Sub}) = n)

\* the string of a number
NumberString(x) ==
  IF "nan" \in DOMAIN x THEN "NaN"
  ELSE IF "inf" \in DOMAIN x THEN (IF x.v < 0 THEN "-Infinity" ELSE "Infinity")
  ELSE IF "lit" \in DOMAIN x THEN x.lit
  ELSE ToString(x.v)

\* the string an array element contributes to Array.prototype.join
RECURSIVE ElemString(_)
RECURSIVE Join(_, _)
ElemString(x) ==
  CASE x.t \in {"undefined", "null"} -> ""
    [] x.t = "string" -> x.v
    [] x.t = "number" -> NumberString(x)
    [] x.t = "boolean" -> IF x.v THEN "true" ELSE "false"
    [] x.t = "array" -> Join(x.v, ",")
    [] OTHER -> "[object Object]"

\* `${x}`: the string a value contributes to a template literal
TemplateString(x) ==
  CASE x.t = "undefined" -> "undefined"
    [] x.t = "null" -> "null"
    [] OTHER -> ElemString(x)

\* s.join(sep)
Join(s, sep) ==
  IF Len(s) = 0 THEN ""
  ELSE IF Len(s) = 1 THEN ElemString(s[1])
  ELSE ElemString(s[1]) \o sep \o Join(Tail(s), sep)

\* the white space String.prototype.trim removes and the conversion of a
\* string to a number skips: tab, line feed, vertical tab, form feed,
\* carriage return, space, no-break space, U+1680, U+2000 to U+200A, U+2028,
\* U+2029, U+202F, U+205F, U+3000 and U+FEFF
WhiteSpace ==
  {Unit(c) : c \in {9, 10, 11, 12, 13, 32, 160, 5760, 8232, 8233, 8239, 8287,
                    12288, 65279} \cup (8192..8202)}

\* String.prototype.trim
RECURSIVE Trim(_)
Trim(x) ==
  LET StartsWith(w) == Len(x) >= Len(w) /\ SubSeq(x, 1, Len(w)) = w
      EndsWith(w) == Len(x) >= Len(w) /\ SubSeq(x, Len(x) - Len(w) + 1, Len(x)) = w
  IN IF \E w \in WhiteSpace : StartsWith(w)
       THEN Trim(SubSeq(x, Len(CHOOSE w \in WhiteSpace : StartsWith(w)) + 1, Len(x)))
     ELSE IF \E w \in WhiteSpace : EndsWith(w)
       THEN Trim(SubSeq(x, 1, Len(x) - Len(CHOOSE w \in WhiteSpace : EndsWith(w))))
     ELSE x

(***************************************************************************)
(* Numbers.  A number is a double; the text of a number, in a literal of   *)
(* JSON or in a string, is rounded to the nearest double when it is read,  *)
(* and a double is written with the fewest digits that name it.  A decimal *)
(* a is the number 0.d1d2... * 10^p of its digits a.d (a sequence of       *)
(* digits without a zero at either end, empty for 0) and of a.p.           *)
(***************************************************************************)
\* the digits of a string of decimal digits
DigitSeq(x) == SubSeq([i \in 1..Len(x) |-> HexValue(Ch(x, i))], 1, Len(x))

\* the string of the digits ds[i..j]
RECURSIVE DigitString(_, _, _)
DigitString(ds, i, j) ==
  IF i > j THEN ""
  ELSE IF i = j THEN Ch(HexDigits, ds[i] + 1)
  ELSE DigitString(ds, i, (i + j) \div 2) \o DigitString(ds, (i + j) \div 2 + 1, j)

\* a string of n zeros
RECURSIVE Zeros(_)
Zeros(n) == IF n <= 0 THEN "" ELSE "0" \o Zeros(n - 1)

\* the first place of ds that does not hold the digit c (one past the end if
\* there is none), and the last one (0 if there is none)
FirstNot(ds, c) ==
  IF \A i \in 1..Len(ds) : ds[i] = c THEN Len(ds) + 1
  ELSE CHOOSE j \in 1..Len(ds) : ds[j] # c /\ \A k \in 1..(j - 1) : ds[k] = c

LastNot(ds, c) ==
  IF \A i \in 1..Len(ds) : ds[i] = c THEN 0
  ELSE CHOOSE j \in 1..Len(ds) : ds[j] # c /\ \A k \in (j + 1)..Len(ds) : ds[k] = c

\* the decimal r * 10^s of the integer that the digits r write
Norm(r, s) ==
  [d |-> SubSeq(r, FirstNot(r, 0), LastNot(r, 0)),
   p |-> Len(r) + s - (FirstNot(r, 0) - 1)]

\* the digits of 2 * ds + bit, one more than ds has
Doubled(ds, bit) ==
  SubSeq([i \in 1..(Len(ds) + 1) |->
            (IF i = 1 THEN 0 ELSE (2 * ds[i - 1]) % 10)
              + (IF i <= Len(ds) /\ ds[i] >= 5 THEN 1 ELSE 0)
              + (IF i = Len(ds) + 1 THEN bit ELSE 0)], 1, Len(ds) + 1)

\* a * 2^k
RECURSIVE Scale(_, _)
Scale(a, k) ==
  LET Halved(ds) ==
        SubSeq([i \in 1..(Len(ds) + 1) |->
                  (IF i <= Len(ds) THEN ds[i] \div 2 ELSE 0)
                    + (IF i > 1 /\ ds[i - 1] % 2 = 1 THEN 5 ELSE 0)], 1, Len(ds) + 1)
  IN IF k = 0 \/ Len(a.d) = 0 THEN a
     ELSE IF k = 1 THEN Norm(Doubled(a.d, 0), a.p - Len(a.d))
     ELSE IF k = 0 - 1 THEN Norm(Halved(a.d), a.p - Len(a.d) - 1)
     ELSE IF k > 0 THEN Scale(Scale(a, k \div 2), k - (k \div 2))
     ELSE Scale(Scale(a, 0 - ((0 - k) \div 2)), k + ((0 - k) \div 2))

\* the i-th digit of a decimal
Dig(a, i) == IF 1 <= i /\ i <= Len(a.d) THEN a.d[i] ELSE 0

\* a < b for two decimals
Less(a, b) ==
  IF Len(a.d) = 0 \/ Len(b.d) = 0 THEN Len(b.d) > 0 /\ Len(a.d) = 0
  ELSE IF a.p # b.p THEN a.p < b.p
  ELSE \E i \in 1..Len(b.d) :
         Dig(b, i) > Dig(a, i) /\ \A j \in 1..(i - 1) : Dig(a, j) = Dig(b, j)

\* the digits of ds + 1 (by = 1) and of ds - 1 (by = -1, ds not 0)
Bump(ds, by) ==
  IF LastNot(ds, IF by = 1 THEN 9 ELSE 0) = 0
    THEN <<1>> \o [i \in 1..Len(ds) |-> 0]
  ELSE [i \in 1..Len(ds) |->
          IF i < LastNot(ds, IF by = 1 THEN 9 ELSE 0) THEN ds[i]
          ELSE IF i = LastNot(ds, IF by = 1 THEN 9 ELSE 0) THEN ds[i] + by
          ELSE IF by = 1 THEN 0 ELSE 9]

\* the double nearest to the decimal a, ties to the even one: the digits of
\* the integer m < 2^53 and the e >= -1074 with m * 2^e the double (m >= 2^52
\* unless e = -1074), and whether the double is a power of two, which is
\* nearer to the double below it than to the double above.  a is scaled into
\* [2^52, 2^53), from an estimate of its binary logarithm, and rounded there
ToDouble(a) ==
  LET two52 == DigitSeq("4503599627370496")
      two53 == DigitSeq("9007199254740992")
      RECURSIVE Adjust(_, _)
      Adjust(w, e) ==
        IF ~Less(w, Norm(two53, 0)) THEN Adjust(Scale(w, 0 - 1), e + 1)
        ELSE IF Less(w, Norm(two52, 0)) /\ e > 0 - 1074
          THEN Adjust(Scale(w, 1), e - 1)
        ELSE [w |-> w, e |-> e]
      Whole(w) ==
        IF w.p <= 0 THEN <<>> ELSE SubSeq([i \in 1..w.p |-> Dig(w, i)], 1, w.p)
      Up(w) ==
        /\ w.p >= 0
        /\ \/ Dig(w, w.p + 1) > 5
           \/ /\ Dig(w, w.p + 1) = 5
              /\ (Len(w.d) > w.p + 1 \/ Dig(w, w.p) % 2 = 1)
      Double(m, e) ==
        IF m = two53 THEN [m |-> two52, e |-> e + 1, pow |-> TRUE]
        ELSE [m |-> m, e |-> e, pow |-> m = two52 /\ e > 0 - 1074]
      Rounded(s) ==
        Double(IF Up(s.w) THEN Bump(Whole(s.w), 1) ELSE Whole(s.w), s.e)
      estimate == (((a.p - 1) * 33220) \div 10000) - 53
  IN Rounded(Adjust(Scale(a, 0 - (IF estimate < 0 - 1074 THEN 0 - 1074 ELSE estimate)),
                    IF estimate < 0 - 1074 THEN 0 - 1074 ELSE estimate))

\* the decimal of the fewest digits, k at least, among those that the double
\* of the value v is the nearest double of, which lie between lo and hi (the
\* ends included when closed); of two such decimals the one nearer to v
RECURSIVE Shortest(_, _, _, _, _)
Shortest(v, lo, hi, closed, k) ==
  LET down == Norm(SubSeq(v.d, 1, k), v.p - k)
      up == Norm(Bump(SubSeq(v.d, 1, k), 1), v.p - k)
      nearer == \/ Dig(v, k + 1) > 5
                \/ Dig(v, k + 1) = 5 /\ (Len(v.d) > k + 1 \/ v.d[k] % 2 = 1)
      Within(c) ==
        IF closed THEN ~Less(c, lo) /\ ~Less(hi, c) ELSE Less(lo, c) /\ Less(c, hi)
  IN IF Len(v.d) <= k THEN v
     ELSE IF Within(IF nearer THEN up ELSE down) THEN (IF nearer THEN up ELSE down)
     ELSE IF Within(IF nearer THEN down ELSE up) THEN (IF nearer THEN down ELSE up)
     ELSE Shortest(v, lo, hi, closed, k + 1)

\* the number sign * 0.d * 10^n as Number.prototype.toString writes it, d
\* being the digits of the shortest decimal that names it
Written(sign, d, n) ==
  LET minus == IF sign < 0 THEN "-" ELSE ""
      top == sign * 1000000000
  IN IF Len(d) <= n /\ n <= 9
       THEN Num(sign * DigitsValue(d \o Zeros(n - Len(d)), 1, n + 1, 10, 0))
     ELSE IF Len(d) <= n /\ n <= 21
       THEN Numeral(top, minus \o d \o Zeros(n - Len(d)))
     ELSE IF 0 < n /\ n <= 21
       THEN Numeral(IF n <= 9 THEN sign * DigitsValue(d, 1, n + 1, 10, 0) ELSE top,
                    minus \o SubSeq(d, 1, n) \o "." \o SubSeq(d, n + 1, Len(d)))
     ELSE IF 0 - 6 < n /\ n <= 0
       THEN Numeral(0, minus \o "0." \o Zeros(0 - n) \o d)
     ELSE Numeral(IF n > 0 THEN top ELSE 0,
                  minus \o SubSeq(d, 1, 1)
                    \o (IF Len(d) > 1 THEN "." \o SubSeq(d, 2, Len(d)) ELSE "")
                    \o (IF n > 0 THEN "e+" \o ToString(n - 1)
                        ELSE "e-" \o ToString(1 - n)))

\* the number of the double x = m * 2^e, with its sign: infinite from 2^1024
\* on, 0 for m = 0, and otherwise written with the shortest decimal between
\* the middle of x and the double below it and the middle of x and the
\* double above it; the ends count when m is even
Nearest(sign, x) ==
  LET Digits(a) == DigitString(a.d, 1, Len(a.d))
      Text(a) == Written(sign, Digits(a), a.p)
  IN IF x.e > 971 THEN Infinity(sign)
     ELSE IF Len(x.m) = 0 THEN Num(0)
     ELSE Text(Shortest(Scale(Norm(x.m, 0), x.e),
                        IF x.pow
                          THEN Scale(Norm(Bump(Doubled(Doubled(x.m, 0), 0), 0 - 1), 0),
                                     x.e - 2)
                        ELSE Scale(Norm(Bump(Doubled(x.m, 0), 0 - 1), 0), x.e - 1),
                        Scale(Norm(Doubled(x.m, 1), 0), x.e - 1),
                        x.m[Len(x.m)] % 2 = 0, 1))

\* the number sign * a of the decimal a.  A decimal of at most 15 digits
\* between 10^-300 and 10^300 is itself the shortest decimal that names its
\* double; a decimal from 10^310 on is infinite and one below 10^-330 is 0
Decimal(sign, a) ==
  IF Len(a.d) = 0 THEN Num(0)
  ELSE IF Len(a.d) <= 15 /\ 0 - 300 <= a.p /\ a.p <= 300
    THEN Written(sign, DigitString(a.d, 1, Len(a.d)), a.p)
  ELSE IF a.p > 310 THEN Infinity(sign)
  ELSE IF a.p < 0 - 330 THEN Num(0)
  ELSE Nearest(sign, ToDouble(a))

\* the digits of the integer that the digits x[i..j] of the radix 2^bits
\* write after the digits that wrote the integer of the digits acc
RECURSIVE FromRadix(_, _, _, _, _)
FromRadix(x, i, j, bits, acc) ==
  LET RECURSIVE Step(_, _, _)
      Step(ds, h, left) ==
        IF left = 0 THEN SubSeq(ds, FirstNot(ds, 0), Len(ds))
        ELSE Step(Doubled(ds, (h \div (2 ^ (left - 1))) % 2), h, left - 1)
  IN IF i > j \/ Len(acc) < 0 THEN acc
     ELSE IF i = j THEN Step(acc, HexValue(Ch(x, i)), bits)
     ELSE FromRadix(x, ((i + j) \div 2) + 1, j, bits,
                    FromRadix(x, i, (i + j) \div 2, bits, acc))

\* the first position from i on that holds no decimal digit
RECURSIVE DigitsEnd(_, _)
DigitsEnd(x, i) ==
  IF i <= Len(x) /\ \E d \in 1..10 : Ch(HexDigits, d) = Ch(x, i)
    THEN DigitsEnd(x, i + 1)
  ELSE i

\* the positions <<s, e, f, g, h>> that part the decimal literal whose digits
\* start at x[s]: the digits before the point end before e, those after it
\* before f, and the digits of the exponent are x[g..h-1]
RECURSIVE NumberEnds(_, _)
NumberEnds(x, q) ==
  CASE Len(q) = 1 -> NumberEnds(x, Append(q, DigitsEnd(x, q[1])))
    [] Len(q) = 2 ->
         NumberEnds(x, Append(q, IF Ch(x, q[2]) = "." THEN DigitsEnd(x, q[2] + 1)
                                 ELSE q[2]))
    [] Len(q) = 3 ->
         NumberEnds(x, Append(q, IF Ch(x, q[3]) \in {"e", "E"}
                                   THEN IF Ch(x, q[3] + 1) \in {"+", "-"}
                                          THEN q[3] + 2
                                        ELSE q[3] + 1
                                 ELSE q[3]))
    [] OTHER -> Append(q, IF q[4] > q[3] THEN DigitsEnd(x, q[4]) ELSE q[3])

\* the number the decimal literal at x[i] writes, its parts at q, and the
\* position after it.  JSON: -?(0|[1-9][0-9]*)(\.[0-9]+)?([eE][+-]?[0-9]+)?;
\* StringToNumber: [+-]?([0-9]+\.?[0-9]*|\.[0-9]+)([eE][+-]?[0-9]+)?.  An
\* exponent of more than six digits counts as 999999
NumberAt(x, i, q, json) ==
  IF \/ q[4] > q[3] /\ q[5] = q[4]
     \/ json /\ (q[2] = q[1] \/ q[3] = q[2] + 1)
     \/ json /\ q[2] > q[1] + 1 /\ Ch(x, q[1]) = "0"
     \/ ~json /\ q[2] = q[1] /\ q[3] <= q[2] + 1
    THEN [ok |-> FALSE, next |-> 0, val |-> IF json THEN Undef ELSE NaN]
  ELSE [ok |-> TRUE, next |-> q[5],
        val |-> Decimal(IF Ch(x, i) = "-" THEN 0 - 1 ELSE 1,
                        Norm(DigitSeq(SubSeq(x, q[1], q[2] - 1)
                                        \o SubSeq(x, q[2] + 1, q[3] - 1)),
                             (IF q[5] - q[4] > 6 THEN 999999
                              ELSE DigitsValue(x, q[4], q[5], 10, 0))
                               * (IF Ch(x, q[4] - 1) = "-" THEN 0 - 1 ELSE 1)
                               - (IF q[3] > q[2] THEN q[3] - q[2] - 1 ELSE 0)))]

\* the number that the digits x[3..] of the radix 2^bits write, NaN unless
\* there is a digit and every one is a digit of the radix
RadixNumber(x, bits) ==
  IF Len(x) >= 3 /\ \A k \in 3..Len(x) : IsHex(Ch(x, k)) /\ HexValue(Ch(x, k)) < 2 ^ bits
    THEN Decimal(1, Norm(FromRadix(x, 3, Len(x), bits, <<>>), 0))
  ELSE NaN

\* StringToNumber of a string without white space around it:
\* "", Infinity, 0x.., 0o.., 0b.., and [+-]digits[.digits][e[+-]digits], a
\* literal that ends where the string does
StringToNumber(x) ==
  LET WholeNumber(r) == IF r.ok /\ r.next = Len(x) + 1 THEN r.val ELSE NaN
  IN IF x = "" THEN Num(0)
     ELSE IF x \in {"Infinity", "+Infinity"} THEN Infinity(1)
     ELSE IF x = "-Infinity" THEN Infinity(0 - 1)
     ELSE IF SubSeq(x, 1, Min(2, Len(x))) \in {"0x", "0X"} THEN RadixNumber(x, 4)
     ELSE IF SubSeq(x, 1, Min(2, Len(x))) \in {"0o", "0O"} THEN RadixNumber(x, 3)
     ELSE IF SubSeq(x, 1, Min(2, Len(x))) \in {"0b", "0B"} THEN RadixNumber(x, 1)
     ELSE WholeNumber(NumberAt(x, 1, NumberEnds(x, <<IF Ch(x, 1) \in {"+", "-"} THEN 2
                                                     ELSE 1>>), FALSE))

\* ToNumber: what Math.min and the comparison with a number make of a value
ToNumber(x) ==
  CASE x.t = "number" -> x
    [] x.t = "boolean" -> Num(IF x.v THEN 1 ELSE 0)
    [] x.t = "null" -> Num(0)
    [] x.t = "string" -> StringToNumber(Trim(x.v))
    [] x.t = "array" -> StringToNumber(Trim(Join(x.v, ",")))
    [] OTHER -> NaN

\* Math.min(n, b) for a number n and an integer b that is not negative
MathMin(n, b) ==
  IF "nan" \in DOMAIN n THEN NaN
  ELSE IF "inf" \in DOMAIN n THEN (IF n.v > 0 THEN Num(b) ELSE n)
  ELSE IF n.v >= b THEN Num(b)
  ELSE n

\* n > 0 for a number n
Positive(n) ==
  /\ "nan" \notin DOMAIN n
  /\ IF "lit" \in DOMAIN n THEN Ch(n.lit, 1) # "-" ELSE n.v > 0

(***************************************************************************)
(* JSON.stringify and JSON.parse.                                          *)
(***************************************************************************)
\* the characters JSON.stringify writes as an escape
Escaped == {"\"", "\\"} \cup {Ch(ControlChars, k) : k \in (1..31) \ {26}}

\* the escape JSON.stringify writes for one of them
JsonEscapes(c) ==
  LET code == CHOOSE k \in 1..31 : Ch(ControlChars, k) = c
  IN CASE c = "\"" -> "\\\""
       [] c = "\\" -> "\\\\"
       [] c = "\n" -> "\\n"
       [] c = "\t" -> "\\t"
       [] c = "\r" -> "\\r"
       [] c = "\f" -> "\\f"
       [] code = 8 -> "\\b"
       [] OTHER -> "\\u00" \o Ch(HexDigits, (code \div 16) + 1)
                     \o Ch(HexDigits, (code % 16) + 1)

\* the text of a string between the quotes JSON.stringify puts around it:
\* a quote, a backslash and a code unit below 32 are written as an escape,
\* and so is a surrogate that is not one of a pair
JsonEscape(x) ==
  LET Between(i, from, to) == from <= CodeAt(x, i) /\ CodeAt(x, i) <= to
      RECURSIVE From(_)
      From(i) ==
        IF i > Len(x) THEN ""
        ELSE IF Ch(x, i) # Sub
          THEN (IF Ch(x, i) \in Escaped THEN JsonEscapes(Ch(x, i)) ELSE Ch(x, i))
                 \o From(i + 1)
        ELSE IF Between(i, 55296, 56319) /\ Between(i + 5, 56320, 57343)
          THEN SubSeq(x, i, i + 9) \o From(i + 10)
        ELSE IF CodeAt(x, i) < 32 \/ Between(i, 55296, 57343)
          THEN "\\u" \o SubSeq(x, i + 1, i + 4) \o From(i + 5)
        ELSE SubSeq(x, i, i + 4) \o From(i + 5)
  IN IF \A i \in 1..Len(x) : Ch(x, i) \notin Escaped \cup {Sub} THEN x
     ELSE From(1)

\* JSON.stringify of a value inside an object or an array: the members of an
\* object are written in the order of its names, a member whose value is
\* undefined is left out, an undefined element is written as null, and so is
\* a number that is NaN or infinite
RECURSIVE JsonSeq(_)
RECURSIVE JsonMembers(_, _)
RECURSIVE Json(_)
Json(x) ==
  CASE x.t = "string" -> "\"" \o JsonEscape(x.v) \o "\""
    [] x.t = "number" ->
         IF "nan" \in DOMAIN x \/ "inf" \in DOMAIN x THEN "null" ELSE NumberString(x)
    [] x.t = "boolean" -> IF x.v THEN "true" ELSE "false"
    [] x.t = "array" -> "[" \o JsonSeq(x.v) \o "]"
    [] x.t = "object" ->
         "{" \o JsonMembers(x.v, SelectSeq(x.ks, LAMBDA f : x.v[f] # Undef)) \o "}"
    [] OTHER -> "null"

JsonSeq(s) ==
  IF Len(s) = 0 THEN ""
  ELSE IF Len(s) = 1 THEN Json(s[1])
  ELSE Json(s[1]) \o "," \o JsonSeq(Tail(s))

JsonMembers(r, names) ==
  IF Len(names) = 0 THEN ""
  ELSE "\"" \o JsonEscape(names[1]) \o "\":" \o Json(r[names[1]])
         \o (IF Len(names) = 1 THEN "" ELSE "," \o JsonMembers(r, Tail(names)))

\* what JSON.stringify and JSON.parse leave of a value: a member whose value
\* is undefined is dropped, an undefined element of an array becomes null,
\* and so does a number that is NaN or infinite
RECURSIVE Wire(_)
Wire(x) ==
  CASE x.t = "array" -> Arr([i \in 1..Len(x.v) |-> Wire(x.v[i])])
    [] x.t = "object" ->
         Obj(SelectSeq(x.ks, LAMBDA f : x.v[f] # Undef),
             [f \in {g \in DOMAIN x.v : x.v[g] # Undef} |-> Wire(x.v[f])])
    [] x.t = "undefined" -> Null
    [] x.t = "number" -> IF "nan" \in DOMAIN x \/ "inf" \in DOMAIN x THEN Null ELSE x
    [] OTHER -> x

\* a record of the model as JSON.stringify sends it.  The members of a
\* record are those of an object literal of the source and come in its order
Sent(rec) ==
  [f \in {g \in DOMAIN rec : rec[g] # Undef} |-> Wire(rec[f])]

\* a[i] for an index i (counted from 0) of an array or a string, and for
\* the property named i of an object
Idx(a, i) ==
  IF a.t = "array" /\ i < Len(a.v) THEN a.v[i + 1]
  ELSE IF a.t = "string" /\ i < Length(a.v)
    THEN Str(SubSeq(Prefix(a.v, i + 1), Len(Prefix(a.v, i)) + 1,
                    Len(Prefix(a.v, i + 1))))
  ELSE IF a.t = "object" THEN Get(a, ToString(i))
  ELSE Undef

\* a.length > 0: the length of an array or a string, the length property
\* of an object
HasLength(a) ==
  IF a.t = "array" THEN Len(a.v) > 0
  ELSE IF a.t = "string" THEN Length(a.v) > 0
  ELSE Positive(ToNumber(Get(a, "length")))

\* the multiplier of Math.random(): a draw n stands for Math.random() = n / RandomScale
RandomScale == 10000000

\* the values Math.random() is drawn from
Randoms ==
  {((2 * k + 1) * RandomScale) \div (2 * RandRange) : k \in 0..(RandRange - 1)}

\* new Date().toISOString().split('T')[0]
Today == "2026-10-30"

(***************************************************************************)
(* Express server: getUSPTOData's normalisation of one upstream entry.     *)
(***************************************************************************)
\* patent.applicationNumberText || ...: the right operand, and with it
\* Math.random(), is evaluated for the entries without an application number
NeedsDraw(patent) == ~Truthy(Get(patent, "applicationNumberText"))

\* the number of calls of Math.random() the callback makes over a list
RandomCalls(bag) == Cardinality({i \in 1..Len(bag) : NeedsDraw(bag[i])})

\* the draw the i-th entry of the list reads, rnds[k] being what the k-th
\* call of Math.random() yields; 0 stands for no draw
DrawFor(rnds, bag, i) ==
  IF NeedsDraw(bag[i]) THEN rnds[RandomCalls(SubSeq(bag, 1, i))] ELSE 0

\* `US${Math.floor(Math.random() * 10000000)}` for the draw n
RandomId(n) == "US" \o ToString(n)

\* the callback of patentFileWrapperDataBag.map throws on this entry
ServerEntryThrows(patent) == ReadThrows(patent)

ServerInventors(metaData) ==
  LET n == Get(metaData, "inventorName")
  IN IF Truthy(n) /\ n.t = "array" THEN Str(Join(n.v, ", "))
     ELSE IF Truthy(n) THEN n
     ELSE Str("Unknown")

ServerAssignee(metaData) ==
  LET a == Get(metaData, "assignee")
  IN IF Truthy(Get(metaData, "assigneeName")) THEN Get(metaData, "assigneeName")
     ELSE IF Truthy(a) /\ Truthy(Get(a, "name")) THEN Get(a, "name")
     ELSE Str("Unknown")

\* the record the callback returns for an entry it does not throw on;
\* rnd is the draw of Math.random()
ServerRecord(patent, rnd) ==
  LET metaData == Or(Get(patent, "applicationMetaData"), EmptyObj)
  IN [patent_id |-> Or(Get(patent, "applicationNumberText"), Str(RandomId(rnd))),
      publication_number |-> Or(Get(patent, "applicationNumberText"), Str("N/A")),
      title |-> Or(Get(metaData, "inventionTitle"), Str("Untitled Patent")),
      inventor |-> ServerInventors(metaData),
      assignee |-> ServerAssignee(metaData),
      publication_date |-> Or(Get(metaData, "filingDate"), Str(Today)),
      snippet |-> Or(Get(metaData, "abstractText"), Str("No abstract available."))]

\* JSON.stringify(response.data, null, 2).substring(0, 500) for the log,
\* response.data && response.data.patentFileWrapperDataBag, then .map(...):
\* the list getUSPTOData's try block evaluates to, or the fact that it throws.
\* JSON.stringify(undefined) is undefined, whose substring cannot be read.
\* rnds[k] is what the k-th call of Math.random() yields
ServerTryBody(outcome, rnds) ==
  IF outcome.kind # "ok" THEN [threw |-> TRUE, list |-> <<>>]
  ELSE IF outcome.data.t = "undefined" THEN [threw |-> TRUE, list |-> <<>>]
  ELSE LET data == outcome.data
           bag == IF ReadThrows(data) THEN Undef
                  ELSE Get(data, "patentFileWrapperDataBag")
       IN IF ~(Truthy(data) /\ Truthy(bag)) THEN [threw |-> FALSE, list |-> <<>>]
          ELSE IF bag.t # "array" THEN [threw |-> TRUE, list |-> <<>>]
          ELSE IF \E i \in 1..Len(bag.v) : ServerEntryThrows(bag.v[i])
            THEN [threw |-> TRUE, list |-> <<>>]
          ELSE [threw |-> FALSE,
                list |-> [i \in 1..Len(bag.v) |->
                           ServerRecord(bag.v[i], DrawFor(rnds, bag.v, i))]]

\* getUSPTOData of the server: its catch block logs and returns []
ServerGetUSPTOData(outcome, rnds) ==
  LET r == ServerTryBody(outcome, rnds)
  IN [threw |-> FALSE, error |-> outcome, list |-> IF r.threw THEN <<>> ELSE r.list]

(***************************************************************************)
(* Express server: analyzePatentWithAI and analyzePatentLandscape.         *)
(***************************************************************************)
\* response.data.candidates[0].content.parts[0].text
ExtractText(data) ==
  LET c == IF ReadThrows(data) THEN Undef ELSE Get(data, "candidates")
      c0 == IF ReadThrows(c) THEN Undef ELSE Idx(c, 0)
      content == IF ReadThrows(c0) THEN Undef ELSE Get(c0, "content")
      parts == IF ReadThrows(content) THEN Undef ELSE Get(content, "parts")
      p0 == IF ReadThrows(parts) THEN Undef ELSE Idx(parts, 0)
  IN [threw |-> ReadThrows(data) \/ ReadThrows(c) \/ ReadThrows(c0)
                  \/ ReadThrows(content) \/ ReadThrows(parts) \/ ReadThrows(p0),
      text |-> IF ReadThrows(p0) THEN Undef ELSE Get(p0, "text")]

\* const cacheKey = JSON.stringify(patentData)
CacheKey(p) ==
  "{\"patent_id\":" \o Json(p.patent_id)
    \o ",\"publication_number\":" \o Json(p.publication_number)
    \o ",\"title\":" \o Json(p.title)
    \o ",\"inventor\":" \o Json(p.inventor)
    \o ",\"assignee\":" \o Json(p.assignee)
    \o ",\"publication_date\":" \o Json(p.publication_date)
    \o ",\"snippet\":" \o Json(p.snippet) \o "}"

AnalysisNoKey == Str("AI analysis unavailable: API key not configured properly.")
AnalysisUnavailable ==
  Str("AI analysis is temporarily unavailable. Please try again later.")
AnalysisFailed == Str("Analysis failed for this patent.")
AnalysisRateLimited == Str("Analysis not performed due to rate limiting.")
AnalysisNotConfigured ==
  Str("AI analysis not configured. Please check your Gemini API key.")
LandscapeUnavailable == Str("Landscape analysis is temporarily unavailable.")
LandscapeNotConfigured ==
  Str("Landscape analysis not configured. Please check your Gemini API key.")

\* analyzePatentWithAI up to its await: the value it returns at once, or the
\* external call it issues
AnalyzeStart(gemini, cache, patent) ==
  LET key == CacheKey(patent)
  IN IF ~gemini THEN [key |-> key, st |-> "done", out |-> AnalysisNoKey,
                      ext |-> FALSE, failed |-> TRUE]
     ELSE IF key \in DOMAIN cache
       THEN [key |-> key, st |-> "done", out |-> cache[key],
             ext |-> FALSE, failed |-> FALSE]
     ELSE [key |-> key, st |-> "wait", out |-> Undef, ext |-> TRUE, failed |-> FALSE]

\* AnalyzeFinish without analysisCache.set: a faulty variant that C2 must
\* tell from the function
AnalyzeFinishNoSet(outcome) ==
  LET x == IF outcome.kind = "ok" THEN ExtractText(outcome.data)
           ELSE [threw |-> TRUE, text |-> Undef]
  IN IF x.threw THEN [out |-> AnalysisUnavailable, set |-> FALSE, failed |-> TRUE]
     ELSE [out |-> x.text, set |-> FALSE, failed |-> FALSE]

\* analyzePatentWithAI after its await: the value it returns and whether it
\* reached analysisCache.set
AnalyzeFinish(outcome) ==
  LET x == IF outcome.kind = "ok" THEN ExtractText(outcome.data)
           ELSE [threw |-> TRUE, text |-> Undef]
  IN IF x.threw THEN [out |-> AnalysisUnavailable, set |-> FALSE, failed |-> TRUE]
     ELSE [out |-> x.text, set |-> TRUE, failed |-> FALSE]

\* analysisCache.set(cacheKey, analysis)
CacheSet(cache, key, val) ==
  [k \in DOMAIN cache \cup {key} |-> IF k = key THEN val ELSE cache[k]]

\* analyzePatentLandscape after its await
LandscapeFinish(outcome) ==
  LET x == IF outcome.kind = "ok" THEN ExtractText(outcome.data)
           ELSE [threw |-> TRUE, text |-> Undef]
  IN IF x.threw THEN LandscapeUnavailable ELSE x.text

\* WithAnalysis that also writes the analysis over the snippet: a faulty
\* variant that C13 must tell from the spread
WithAnalysisOverSnippet(patent, analysis) ==
  [f \in DOMAIN patent \cup {"analysis"} |->
     IF f \in {"analysis", "snippet"} THEN analysis ELSE patent[f]]

\* { ...patent, analysis }
WithAnalysis(patent, analysis) ==
  [f \in DOMAIN patent \cup {"analysis"} |->
     IF f = "analysis" THEN analysis ELSE patent[f]]

(***************************************************************************)
(* Serverless function: getUSPTOData's normalisation of one upstream entry.*)
(***************************************************************************)
\* the first `left` digits after the point of rem / RandomScale written in
\* base 36, without trailing zeros
RECURSIVE Base36Fraction(_, _)
Base36Fraction(rem, left) ==
  IF left = 0 \/ rem = 0 THEN ""
  ELSE Ch("0123456789abcdefghijklmnopqrstuvwxyz", ((rem * 36) \div RandomScale) + 1)
         \o Base36Fraction((rem * 36) % RandomScale, left - 1)

\* `temp-${Math.random().toString(36).substr(2, 9)}` for the draw n:
\* toString(36) is "0" for 0 and "0." and the fraction's digits otherwise
TempId(n) == "temp-" \o Base36Fraction(n, 9)

\* the first element of correspondenceAddressBag that the location reads
NetlifyLocationThrows(inventor) ==
  LET cab == Get(inventor, "correspondenceAddressBag")
  IN Truthy(cab) /\ HasLength(cab) /\ ReadThrows(Idx(cab, 0))

\* metadata.inventorBag.forEach(...) throws
NetlifyInventorsThrow(metadata) ==
  LET bag == Get(metadata, "inventorBag")
  IN Truthy(bag)
       /\ (bag.t # "array"
             \/ \E i \in 1..Len(bag.v) :
                  ReadThrows(bag.v[i]) \/ NetlifyLocationThrows(bag.v[i]))

\* metadata.applicantBag.forEach(...) throws
NetlifyAssigneesThrow(metadata) ==
  LET bag == Get(metadata, "applicantBag")
  IN Truthy(bag)
       /\ (bag.t # "array" \/ \E i \in 1..Len(bag.v) : ReadThrows(bag.v[i]))

\* the abstract: the first of several candidate fields that is set
NetlifyAbstract(metadata, publication, grant) ==
  IF Truthy(Get(publication, "abstract")) THEN Get(publication, "abstract")
  ELSE IF Truthy(Get(grant, "abstract")) THEN Get(grant, "abstract")
  ELSE IF Truthy(Get(metadata, "inventionTitle")) THEN Get(metadata, "inventionTitle")
  ELSE Str("Abstract not available")

\* the callback of (data.patentFileWrapperDataBag || []).map throws on this entry
NetlifyEntryThrows(patent) ==
  \/ ReadThrows(patent)
  \/ LET metadata == Or(Get(patent, "applicationMetaData"), EmptyObj)
         publication == Or(Get(patent, "patentApplicationPublication"), EmptyObj)
         grant == Or(Get(patent, "patentGrant"), EmptyObj)
     IN \/ NetlifyInventorsThrow(metadata)
        \/ NetlifyAssigneesThrow(metadata)
        \/ NetlifyAbstract(metadata, publication, grant).t # "string"

NetlifyInventor(inventor) ==
  LET firstName == Or(Get(inventor, "firstName"), Str(""))
      lastName == Or(Get(inventor, "lastName"), Str(""))
      cab == Get(inventor, "correspondenceAddressBag")
      first == Idx(cab, 0)
  IN Obj(<<"name", "location">>,
         [name |-> Or(Str(Trim(TemplateString(firstName) \o " " \o TemplateString(lastName))),
                      Str("Unknown")),
          location |->
            IF Truthy(cab) /\ HasLength(cab)
              THEN Str(Trim(TemplateString(Or(Get(first, "cityName"), Str(""))) \o ", "
                              \o TemplateString(Or(Get(first, "geographicRegionName"), Str("")))))
            ELSE Str("Unknown")])

NetlifyInventors(metadata) ==
  LET bag == Get(metadata, "inventorBag")
  IN IF Truthy(bag) THEN [i \in 1..Len(bag.v) |-> NetlifyInventor(bag.v[i])]
     ELSE <<>>

NetlifyAssignees(metadata) ==
  LET bag == Get(metadata, "applicantBag")
      named == IF Truthy(bag)
                 THEN SelectSeq(bag.v, LAMBDA a : Truthy(Get(a, "applicantNameText")))
               ELSE <<>>
  IN [i \in 1..Len(named) |->
        Obj(<<"name", "type">>,
            [name |-> Get(named[i], "applicantNameText"), type |-> Str("Organization")])]

\* abstract.substring(0, 200) + (abstract.length > 200 ? '...' : '')
Snippet(abstract) ==
  Prefix(abstract, 200) \o (IF Length(abstract) > 200 THEN "..." ELSE "")

\* the record the callback returns for an entry it does not throw on
NetlifyRecord(patent, rnd) ==
  LET metadata == Or(Get(patent, "applicationMetaData"), EmptyObj)
      publication == Or(Get(patent, "patentApplicationPublication"), EmptyObj)
      grant == Or(Get(patent, "patentGrant"), EmptyObj)
      inventors == NetlifyInventors(metadata)
      assignees == NetlifyAssignees(metadata)
      abstract == NetlifyAbstract(metadata, publication, grant)
      cpc == Get(metadata, "cpcClassificationBag")
  IN [patent_id |-> Or(Get(patent, "applicationNumberText"), Str(TempId(rnd))),
      publication_number |-> Or(Get(patent, "applicationNumberText"), Str("N/A")),
      title |-> Or(Get(metadata, "inventionTitle"), Str("Title not available")),
      inventor |-> IF Len(inventors) > 0
                     THEN Str(Join([i \in 1..Len(inventors) |-> inventors[i].v.name], ", "))
                   ELSE Str("Unknown"),
      assignee |-> IF Len(assignees) > 0
                     THEN Str(Join([i \in 1..Len(assignees) |-> assignees[i].v.name], ", "))
                   ELSE Str("Unknown"),
      publication_date |->
        Or(Get(metadata, "publicationDate"),
           Or(Get(publication, "publicationDate"),
              Or(Get(metadata, "filingDate"), Str("Unknown")))),
      filing_date |-> Or(Get(metadata, "filingDate"), Str("Unknown")),
      snippet |-> Str(Snippet(abstract.v)),
      abstract |-> abstract,
      status |-> Or(Get(metadata, "applicationStatusDescriptionText"), Str("Unknown")),
      classification |->
        Obj(<<"primary", "ipc">>,
            [primary |-> Or(Get(metadata, "uspcSymbolText"), Str("Unknown")),
             ipc |-> IF Truthy(cpc) /\ HasLength(cpc) THEN Idx(cpc, 0)
                     ELSE Str("Unknown")]),
      inventors_detailed |-> Arr(inventors),
      assignees_detailed |-> Arr(assignees)]

\* getUSPTOData of the serverless function: the list it resolves to, or the
\* message of the Error its catch block rethrows
NetlifyGetUSPTOData(outcome, rnds) ==
  LET failed(msg) == [threw |-> TRUE, error |-> outcome, list |-> <<>>,
                      message |-> "Failed to fetch patent data: " \o msg]
  IN IF outcome.kind = "http"
       THEN failed("USPTO API error: " \o ToString(outcome.status) \o " "
                     \o outcome.statusText)
     ELSE IF outcome.kind = "badbody"
       THEN failed(outcome.message)
     ELSE IF outcome.kind # "ok" THEN failed("fetch failed")
     ELSE IF ReadThrows(outcome.data) THEN failed("TypeError")
     ELSE LET bag == Or(Get(outcome.data, "patentFileWrapperDataBag"), Arr(<<>>))
          IN IF bag.t # "array" THEN failed("TypeError")
             ELSE IF \E i \in 1..Len(bag.v) : NetlifyEntryThrows(bag.v[i])
               THEN failed("TypeError")
             ELSE [threw |-> FALSE, error |-> outcome, message |-> "",
                   list |-> [i \in 1..Len(bag.v) |->
                              NetlifyRecord(bag.v[i], DrawFor(rnds, bag.v, i))]]

(***************************************************************************)
(* Serverless function: generatePracticalAnalysis.                         *)
(***************************************************************************)
\* text.match(/\{[\s\S]*\}/): from the first "{" to the last "}" after it
JsonMatch(text) ==
  LET Has(c) == \E i \in 1..Len(text) : Ch(text, i) = c
      first == CHOOSE i \in 1..Len(text) :
                 Ch(text, i) = "{" /\ \A j \in 1..(i - 1) : Ch(text, j) # "{"
      last == CHOOSE i \in 1..Len(text) :
                Ch(text, i) = "}" /\ \A j \in (i + 1)..Len(text) : Ch(text, j) # "}"
  IN IF Has("{") /\ Has("}") /\ last > first
       THEN [found |-> TRUE, str |-> SubSeq(text, first, last)]
     ELSE [found |-> FALSE, str |-> ""]

\* JSON.parse: the value read at position i and the position after it
ParseFail == [ok |-> FALSE, next |-> 0, val |-> Undef]

\* the first position from i on that holds no white space of those JSON
\* allows between tokens
RECURSIVE SkipSpace(_, _)
SkipSpace(x, i) ==
  IF Ch(x, i) \in {" ", "\t", "\n", "\r"} THEN SkipSpace(x, i + 1) ELSE i

\* the character an escape \c of a JSON string stands for
JsonUnescapes ==
  [c \in {"\"", "\\", "/", "b", "n", "t", "r", "f"} |->
     CASE c = "b" -> Ch(ControlChars, 8)
       [] c = "n" -> "\n"
       [] c = "t" -> "\t"
       [] c = "r" -> "\r"
       [] c = "f" -> "\f"
       [] OTHER -> c]

\* the code units of a JSON string from position i to its closing quote,
\* after the code units acc; a code unit below 32 must be written as an
\* escape, and an escape \uXXXX stands for the code unit with that code
RECURSIVE ParseChars(_, _, _)
ParseChars(x, i, acc) ==
  IF i > Len(x) \/ Ch(x, i) \in Escaped \ {"\"", "\\"} THEN ParseFail
  ELSE IF Ch(x, i) = Sub
    THEN IF CodeAt(x, i) < 32 THEN ParseFail
         ELSE ParseChars(x, i + 5, acc \o SubSeq(x, i, i + 4))
  ELSE IF Ch(x, i) = "\"" THEN [ok |-> TRUE, next |-> i + 1, val |-> Str(acc)]
  ELSE IF Ch(x, i) # "\\" THEN ParseChars(x, i + 1, acc \o Ch(x, i))
  ELSE IF Ch(x, i + 1) \in DOMAIN JsonUnescapes
    THEN ParseChars(x, i + 2, acc \o JsonUnescapes[Ch(x, i + 1)])
  ELSE IF Ch(x, i + 1) = "u" /\ \A k \in 2..5 : IsHex(Ch(x, i + k))
    THEN ParseChars(x, i + 6, acc \o Unit(DigitsValue(x, i + 2, i + 6, 16, 0)))
  ELSE ParseFail

ParseString(x, i) ==
  IF Ch(x, i) = "\"" THEN ParseChars(x, i + 1, "") ELSE ParseFail

\* x holds the word w at position i
WordAt(x, i, w) == i + Len(w) - 1 <= Len(x) /\ SubSeq(x, i, i + Len(w) - 1) = w

\* the name of a member is an array index: the decimal text, without a zero
\* before it, of an integer from 0 to 2^32 - 2
IsIndex(k) ==
  /\ Len(k) \in 1..10
  /\ DigitsEnd(k, 1) = Len(k) + 1
  /\ k = "0" \/ Ch(k, 1) # "0"
  /\ ~Less(Norm(DigitSeq("4294967294"), 0), Norm(DigitSeq(k), 0))

\* the object with the member k |-> v added, or replaced when the object has
\* a member k.  A new array index goes after the array indices below it, any
\* other new name goes last
WithMember(object, k, v) ==
  LET Below(j) ==
        IsIndex(object.ks[j])
          /\ Less(Norm(DigitSeq(object.ks[j]), 0), Norm(DigitSeq(k), 0))
      before == Cardinality({j \in 1..Len(object.ks) : Below(j)})
  IN Obj(IF k \in DOMAIN object.v THEN object.ks
         ELSE IF IsIndex(k)
           THEN SubSeq(object.ks, 1, before) \o <<k>>
                  \o SubSeq(object.ks, before + 1, Len(object.ks))
         ELSE Append(object.ks, k),
         [f \in DOMAIN object.v \cup {k} |-> IF f = k THEN v ELSE object.v[f]])

RECURSIVE ParseValue(_, _)
RECURSIVE ParseMembers(_, _, _)
RECURSIVE ParseMemberValue(_, _, _, _)
RECURSIVE ParseMemberEnd(_, _, _, _, _)
RECURSIVE ParseElements(_, _, _)
RECURSIVE ParseElementEnd(_, _, _, _)
\* the value that starts at position i, which holds no white space
ParseValue(x, i) ==
  IF Ch(x, i) = "\"" THEN ParseString(x, i)
  ELSE IF Ch(x, i) = "{" THEN
    IF Ch(x, SkipSpace(x, i + 1)) = "}"
      THEN [ok |-> TRUE, next |-> SkipSpace(x, i + 1) + 1, val |-> EmptyObj]
    ELSE ParseMembers(x, SkipSpace(x, i + 1), EmptyObj)
  ELSE IF Ch(x, i) = "[" THEN
    IF Ch(x, SkipSpace(x, i + 1)) = "]"
      THEN [ok |-> TRUE, next |-> SkipSpace(x, i + 1) + 1, val |-> Arr(<<>>)]
    ELSE ParseElements(x, SkipSpace(x, i + 1), <<>>)
  ELSE IF WordAt(x, i, "true") THEN [ok |-> TRUE, next |-> i + 4, val |-> Bool(TRUE)]
  ELSE IF WordAt(x, i, "false") THEN [ok |-> TRUE, next |-> i + 5, val |-> Bool(FALSE)]
  ELSE IF WordAt(x, i, "null") THEN [ok |-> TRUE, next |-> i + 4, val |-> Null]
  ELSE NumberAt(x, i, NumberEnds(x, <<IF Ch(x, i) = "-" THEN i + 1 ELSE i>>), TRUE)

\* the members of an object from the key at position i on, after the
\* members of the object acc
ParseMembers(x, i, acc) == ParseMemberValue(x, ParseString(x, i), acc, 0)

ParseMemberValue(x, k, acc, unused) ==
  IF ~k.ok \/ Ch(x, SkipSpace(x, k.next)) # ":" THEN ParseFail
  ELSE ParseMemberEnd(x, k.val.v,
                      ParseValue(x, SkipSpace(x, SkipSpace(x, k.next) + 1)), acc, 0)

ParseMemberEnd(x, k, v, acc, unused) ==
  IF ~v.ok THEN ParseFail
  ELSE IF Ch(x, SkipSpace(x, v.next)) = "}"
    THEN [ok |-> TRUE, next |-> SkipSpace(x, v.next) + 1,
          val |-> WithMember(acc, k, v.val)]
  ELSE IF Ch(x, SkipSpace(x, v.next)) = ","
    THEN ParseMembers(x, SkipSpace(x, SkipSpace(x, v.next) + 1),
                      WithMember(acc, k, v.val))
  ELSE ParseFail

\* the elements of an array from the value at position i on, after the
\* elements acc
ParseElements(x, i, acc) == ParseElementEnd(x, ParseValue(x, i), acc, 0)

ParseElementEnd(x, v, acc, unused) ==
  IF ~v.ok THEN ParseFail
  ELSE IF Ch(x, SkipSpace(x, v.next)) = "]"
    THEN [ok |-> TRUE, next |-> SkipSpace(x, v.next) + 1, val |-> Arr(Append(acc, v.val))]
  ELSE IF Ch(x, SkipSpace(x, v.next)) = ","
    THEN ParseElements(x, SkipSpace(x, SkipSpace(x, v.next) + 1), Append(acc, v.val))
  ELSE ParseFail

\* JSON.parse(x): the value, or the fact that it throws a SyntaxError
JsonParse(x) ==
  LET Parsed(r) ==
        IF r.ok /\ SkipSpace(x, r.next) = Len(x) + 1
          THEN [threw |-> FALSE, val |-> r.val]
        ELSE [threw |-> TRUE, val |-> Undef]
  IN Parsed(ParseValue(x, SkipSpace(x, 1)))

\* what the outer catch block of generatePracticalAnalysis returns
InsightsFailed(message) ==
  Obj(<<"techBreakdown", "competitorActivity", "practicalUses", "techMaturity",
        "interestingFindings", "patentStrength", "error">>,
      [techBreakdown |-> Arr(<<>>),
       competitorActivity |->
         Obj(<<"topPlayers", "filingPatterns">>,
             [topPlayers |-> Arr(<<>>), filingPatterns |-> Str("Analysis failed")]),
       practicalUses |-> Arr(<<>>),
       techMaturity |-> Str("Analysis failed"),
       interestingFindings |-> Arr(<<Str("Analysis error: " \o message)>>),
       patentStrength |-> Str("Could not assess"),
       error |-> Str(message)])

\* building the fallback object throws: p.title.substring is not a function
FallbackThrows(patents) ==
  \E i \in 1..Min(3, Len(patents)) : patents[i].title.t # "string"

\* the fallback object built around the raw text
InsightsFallback(patents, searchTerm, text) ==
  Obj(<<"techBreakdown", "competitorActivity", "practicalUses", "techMaturity",
        "interestingFindings", "patentStrength", "rawAnalysis">>,
      [techBreakdown |->
         Arr(<<Obj(<<"mechanism", "howItWorks", "keyInnovation">>,
                   [mechanism |-> Str("Technology Analysis"),
                    howItWorks |-> Str(Prefix(text, 300)),
                    keyInnovation |-> Str("See detailed analysis")])>>),
       competitorActivity |->
         Obj(<<"topPlayers", "filingPatterns">>,
             [topPlayers |->
                Arr([i \in 1..Min(3, Len(patents)) |->
                       Obj(<<"company", "focus", "filingTrend">>,
                           [company |-> Or(patents[i].assignee, Str("Unknown")),
                            focus |-> Str(Prefix(patents[i].title.v, 50) \o "..."),
                            filingTrend |-> Str("Analysis needed")])]),
              filingPatterns |-> Str("Detailed analysis available below")]),
       practicalUses |->
         Arr(<<Obj(<<"application", "marketReady", "obstacles">>,
                   [application |-> Str(searchTerm \o " applications"),
                    marketReady |-> Str("Assessment in progress"),
                    obstacles |-> Str("See analysis details")])>>),
       techMaturity |-> Str("Analysis in progress"),
       interestingFindings |-> Arr(<<Str("Detailed analysis available")>>),
       patentStrength |-> Str("Requires claim review"),
       rawAnalysis |-> Str(text)])

\* generatePracticalAnalysis from the text of the response on: the parsed
\* JSON, or the fallback object
InsightsParse(patents, searchTerm, text) ==
  LET m == JsonMatch(text)
      parsed == JsonParse(m.str)
  IN IF m.found /\ ~parsed.threw THEN parsed.val
     ELSE IF FallbackThrows(patents) THEN InsightsFailed("TypeError")
     ELSE InsightsFallback(patents, searchTerm, text)

\* generatePracticalAnalysis after its await
InsightsFinish(patents, searchTerm, outcome) ==
  IF outcome.kind = "ok" THEN InsightsParse(patents, searchTerm, outcome.text)
  ELSE IF outcome.kind = "blocked" THEN InsightsFailed("Response was blocked")
  ELSE InsightsFailed("fetch failed")

(***************************************************************************)
(* The inputs the environment draws from.                                  *)
(***************************************************************************)
\* all sequences over S of length at most n
RECURSIVE SeqsUpTo(_, _)
SeqsUpTo(S, n) ==
  IF n <= 0 THEN {<<>>}
  ELSE LET shorter == SeqsUpTo(S, n - 1)
       IN shorter \cup {Append(q, x) : q \in shorter, x \in S}

\* all strings over a space, a tab and "a" of length at most n
RECURSIVE KwStrings(_)
KwStrings(n) ==
  IF n = 0 THEN {""}
  ELSE LET shorter == KwStrings(n - 1)
       IN shorter \cup {q \o c : q \in shorter, c \in {" ", "\t", "a"}}

\* a fully populated upstream entry
FullEntry ==
  Obj(<<"applicationNumberText", "applicationMetaData",
        "patentApplicationPublication">>,
      [applicationNumberText |-> Str("16123456"),
       applicationMetaData |->
         Obj(<<"inventionTitle", "inventorName", "assigneeName", "filingDate",
               "abstractText", "inventorBag", "applicantBag",
               "publicationDate", "applicationStatusDescriptionText",
               "uspcSymbolText", "cpcClassificationBag">>,
             [inventionTitle |-> Str("Laser widget"),
              inventorName |-> Arr(<<Str("Ann Lee"), Str("Bob Roy")>>),
              assigneeName |-> Str("Acme"),
              filingDate |-> Str("2021-05-01"),
              abstractText |-> Str("A laser cuts a widget."),
              inventorBag |->
                Arr(<<Obj(<<"firstName", "lastName", "correspondenceAddressBag">>,
                          [firstName |-> Str("Ann"), lastName |-> Str("Lee"),
                           correspondenceAddressBag |->
                             Arr(<<Obj(<<"cityName", "geographicRegionName">>,
                                       [cityName |-> Str("Reno"),
                                        geographicRegionName |-> Str("NV")])>>)]),
                      Obj(<<"lastName">>,
                          [lastName |-> Str("Roy")])>>),
              applicantBag |->
                Arr(<<Obj(<<"applicantNameText">>,
                          [applicantNameText |-> Str("Acme")]),
                      Obj(<<"applicantNameText">>,
                          [applicantNameText |-> Null])>>),
              publicationDate |-> Str("2022-01-06"),
              applicationStatusDescriptionText |-> Str("Docketed"),
              uspcSymbolText |-> Str("219/121"),
              cpcClassificationBag |-> Arr(<<Str("B23K26/00")>>)]),
       patentApplicationPublication |->
         Obj(<<"abstract">>,
             [abstract |-> Str("A laser cuts a widget along a programmed path.")])])

\* a partially populated entry: no application number, a null title, the
\* inventor a plain string, the assignee nested
PartialEntry ==
  Obj(<<"applicationMetaData">>,
      [applicationMetaData |->
         Obj(<<"inventionTitle", "inventorName", "assignee">>,
             [inventionTitle |-> Null,
              inventorName |-> Str("Solo Inventor"),
              assignee |-> Obj(<<"name">>,
                               [name |-> Str("Beta LLC")])])])

\* an entry whose inventorBag is a string, not a list
OddEntry ==
  Obj(<<"applicationNumberText", "applicationMetaData">>,
      [applicationNumberText |-> Str("17000001"),
       applicationMetaData |-> Obj(<<"inventorBag">>,
                                   [inventorBag |-> Str("Ann Lee")])])

\* an entry whose title is a number, not a string
NumTitleEntry ==
  Obj(<<"applicationNumberText", "applicationMetaData", "patentGrant">>,
      [applicationNumberText |-> Str("17000002"),
       applicationMetaData |-> Obj(<<"inventionTitle">>,
                                   [inventionTitle |-> Num(42)]),
       patentGrant |-> Obj(<<"abstract">>,
                           [abstract |-> Str("A granted abstract.")])])

\* the entries of the lists: fully populated, partially populated, null
RawEntries == {FullEntry, PartialEntry, Null}

\* the answers of the patent service that carry a parsed JSON body: a list of
\* at most n entries, or a body without the list.  The lists are every list
\* of at most MaxMixed entries, the longer lists of fully populated entries,
\* a list of two entries without an application number, and a list with a
\* null entry after a populated one
OkOutcomes(entries, n) ==
  {[kind |-> "ok", data |-> Obj(<<"patentFileWrapperDataBag">>,
                                [patentFileWrapperDataBag |-> Arr(b)])] :
     b \in SeqsUpTo(entries, Min(n, MaxMixed)) \cup SeqsUpTo({FullEntry}, n)
             \cup (IF n >= 2
                     THEN {<<PartialEntry, PartialEntry>>, <<FullEntry, Null>>}
                   ELSE {})}
    \cup {[kind |-> "ok", data |-> Obj(<<"count">>,
                                       [count |-> Num(0)])]}

\* the answers with an error status, its reason phrase and one of the given
\* bodies, and no answer at all
FailOutcomes(bodies) ==
  {[kind |-> "http", status |-> s[1], statusText |-> s[2], data |-> d] :
     s \in {<<401, "Unauthorized">>, <<403, "Forbidden">>,
            <<429, "Too Many Requests">>, <<500, "Internal Server Error">>},
     d \in bodies}
    \cup {[kind |-> "network"]}

\* what fetch ends in: a response with a 2xx status, a response with an
\* error status (the body of neither is read yet), a rejection
FetchOutcomes == {[kind |-> "ok"]} \cup FailOutcomes({Undef})

\* what axios.get ends in on the server: axios parses a JSON body and hands
\* over any other body as the string it is; an answer with an error status
\* carries a body with a message
ServerAnswers ==
  OkOutcomes(RawEntries, MaxBag)
    \cup FailOutcomes({Obj(<<"message">>, [message |-> Str("upstream down")])})
    \cup {[kind |-> "ok", data |-> Str("<html>")]}

\* what response.json() ends in in the serverless function: the parsed body,
\* or, for the body <html>, a SyntaxError with the message the engine that
\* runs the function words it with
NetlifyAnswers ==
  OkOutcomes(RawEntries \cup {OddEntry, NumTitleEntry}, MaxBag)
    \cup {[kind |-> "badbody", message |-> m] :
            m \in {"Unexpected token < in JSON at position 0",
                   "Unexpected token '<', \"<html>\" is not valid JSON"}}

\* the expiry of the timeout given to axios
TimeoutOutcome == [kind |-> "timeout"]

AiBody(text) ==
  Obj(<<"candidates">>,
      [candidates |->
         Arr(<<Obj(<<"content">>,
                   [content |-> Obj(<<"parts">>,
                                    [parts |-> Arr(<<Obj(<<"text">>,
                                                         [text |-> text])>>)])])>>)])

\* what the generative-AI service answers a generateContent call with: a
\* text, a body with no candidate, a body whose first part holds no text,
\* an error status, no answer at all
AiOutcomes(texts) ==
  {[kind |-> "ok", data |-> AiBody(Str(x))] : x \in texts}
    \cup {[kind |-> "ok", data |-> Obj(<<"candidates">>,
                                       [candidates |-> Arr(<<>>)])],
          [kind |-> "ok", data |-> AiBody(Undef)],
          [kind |-> "http", status |-> 429],
          [kind |-> "network"]}

AnalysisTexts == {"analysis one", "analysis two"}
LandscapeTexts == {"landscape"}

\* the bodies of POST /search
Bodies ==
  {Obj(<<"keywords", "maxResults">>,
       [keywords |-> k, maxResults |-> m]) :
     k \in {Undef, Null, Num(7)} \cup {Str(x) : x \in KwStrings(MaxKwLen)},
     m \in {Undef, Num(30)}}

\* the bodies of the serverless function's event: JSON text that parses to an
\* object, to null, or not at all
BadJson == [t |-> "unparseable"]

NetlifyBodies ==
  {Obj(<<"keywords", "maxResults", "showApproved">>,
       [keywords |-> k, maxResults |-> m, showApproved |-> a]) :
     k \in {Undef, Null, Num(7)} \cup {Str(x) : x \in KwStrings(MaxKwLen)},
     m \in {Undef, Num(30), Str("30"), Str("all")}, a \in {Undef, Bool(TRUE)}}
    \cup {Null, BadJson}

Events ==
  {[httpMethod |-> "POST", body |-> b] : b \in NetlifyBodies}
    \cup {[httpMethod |-> m, body |-> Undef] : m \in {"OPTIONS", "GET"}}

\* the texts the generative-AI service answers the structured prompt with:
\* n pieces of JSON and prose, one after the other
RECURSIVE TextsOf(_)
TextsOf(n) ==
  IF n = 0 THEN {""}
  ELSE {q \o c : q \in TextsOf(n - 1),
                 c \in {"{", "}", "{ \"k\": [\"v\", 1] }", "x"}}

\* what model.generateContent and response.text() end in: a text of n
\* pieces, a blocked response (text() throws), an error status, no connection
InsightsOutcomes(n) ==
  {[kind |-> "ok", text |-> x] : x \in TextsOf(n)}
    \cup (IF n = 0
            THEN {[kind |-> "blocked"], [kind |-> "http", status |-> 429],
                  [kind |-> "network"]}
          ELSE {})

\* the answers to the structured prompt, each with its number of pieces
InsightsAnswers ==
  UNION {{<<n, outcome>> : outcome \in InsightsOutcomes(n)} : n \in 0..MaxTextLen}

\* the ceiling of pagination.limit in the serverless function
LimitCeiling == 25

\* slice(0, 3) and slice(3): the size of the enrichment prefix
PrefixSize == 3
\* the timeouts given to axios, in milliseconds
UsptoTimeoutMs == 20000
AiTimeoutMs == 30000
LandscapeTimeoutMs == 30000

(***************************************************************************)
(* The state of a request.                                                 *)
(***************************************************************************)
NoCall == [svc |-> "none"]
NoOutcome == [kind |-> "none"]
NoResp == [status |-> 0]

\* the requests of a run, numbered in the order of their arrival
Reqs == 1..MaxRequests

IdleReq ==
  [pc |-> "idle", kind |-> "none", kw |-> Undef, approved |-> Undef,
   call |-> NoCall, got |-> NoOutcome, said |-> NoOutcome,
   patents |-> <<>>, tasks |-> <<>>, uspto |-> 0, ai |-> 0, resp |-> NoResp]

\* !keywords || keywords.trim() === '' (keywords a string when truthy)
KeywordsBlank(keywords) == ~Truthy(keywords) \/ Trim(keywords.v) = ""

ErrorBody(msg) == [error |-> Str(msg)]

\* res.status(status).json(body), which ends the handler
Respond(r, status, body) ==
  [r EXCEPT !.pc = "done", !.call = NoCall, !.resp = [status |-> status, body |-> body]]

\* the number of entries in the list of an answer of the patent service
Entries(outcome) ==
  IF outcome.kind = "ok" /\ Get(outcome.data, "patentFileWrapperDataBag").t = "array"
    THEN Len(Get(outcome.data, "patentFileWrapperDataBag").v)
  ELSE 0

Init ==
  /\ env \in [gemini : BOOLEAN, uspto : BOOLEAN]
  /\ variant \in {"server", "netlify"}
  /\ analysisCache = [k \in {} |-> Undef]
  /\ reqs = [id \in Reqs |-> IdleReq]
  /\ nreq = 0
  /\ used = [bag |-> 0, text |-> 0]

(***************************************************************************)
(* Express server: app.post('/search').  Express calls the handler for    *)
(* every request; a handler runs up to its next await and the handlers of *)
(* the requests in flight take their steps in any order.                  *)
(***************************************************************************)
\* the catch block of the handler: the response it sends, or the fact that
\* it throws itself, reading the message of a body that is null or undefined
ServerCatch(error) ==
  LET sends(status, msg) == [threw |-> FALSE, status |-> status, body |-> ErrorBody(msg)]
  IN IF error.kind = "timeout" THEN sends(504, "Request timeout. Please try again.")
     ELSE IF error.kind = "http" THEN
       IF error.status \in {401, 403}
         THEN sends(403, "Authentication failed. Please check your API key.")
       ELSE IF error.status = 429
         THEN sends(429, "Rate limit exceeded. Please try again later.")
       ELSE IF ReadThrows(error.data)
         THEN [threw |-> TRUE, status |-> 0, body |-> ErrorBody("TypeError")]
       ELSE sends(error.status,
                  "API Error: "
                    \o TemplateString(Or(Get(error.data, "message"),
                                         Str(error.statusText))))
     ELSE IF error.kind = "network"
       THEN sends(503, "The USPTO API is currently unavailable. Please try again later.")
     ELSE sends(500, "An unknown server error occurred.")

\* [...patentsWithAnalysis, ...remainingPatents] once Promise.all resolved
PatentsWithAnalysis(patents, tasks) ==
  [i \in 1..Len(patents) |->
     IF i <= Len(tasks) THEN WithAnalysis(patents[i], tasks[i].out)
     ELSE WithAnalysis(patents[i], AnalysisRateLimited)]

\* processedPatents.map(...) when Gemini is not configured
PatentsNotConfigured(patents) ==
  [i \in 1..Len(patents) |-> WithAnalysis(patents[i], AnalysisNotConfigured)]

\* res.json({patents, landscape, total, dataSource}): JSON.stringify leaves
\* out a member whose value is undefined, in the body and in each record
SearchBody(patents, landscape, total) ==
  IF landscape = Undef
    THEN [patents |-> [i \in 1..Len(patents) |-> Sent(patents[i])],
          total |-> total, dataSource |-> "uspto"]
  ELSE [patents |-> [i \in 1..Len(patents) |-> Sent(patents[i])],
        landscape |-> Wire(landscape), total |-> total, dataSource |-> "uspto"]

\* the analyzePatentWithAI calls of all requests, each named by its request
\* and its place in the fan-out
Calls(rs) ==
  {c \in Reqs \X (1..PrefixSize) : c[2] \in DOMAIN rs[c[1]].tasks}

\* what the analyzePatentWithAI calls for a cache key that have returned
\* leave for a call that starts now: the output, whether the call went to
\* the AI service, and whether it ended in the failure placeholder
CallRecords(rs, key) ==
  {[out |-> rs[c[1]].tasks[c[2]].out, ext |-> rs[c[1]].tasks[c[2]].ext,
    failed |-> rs[c[1]].tasks[c[2]].failed] :
     c \in {d \in Calls(rs) : /\ rs[d[1]].tasks[d[2]].st = "done"
                              /\ rs[d[1]].tasks[d[2]].key = key}}

AllSettled(tasks) == \A i \in DOMAIN tasks : tasks[i].st = "done"

\* the handler once Promise.all has resolved: analyzePatentLandscape issues
\* its call
CallLandscape(r) ==
  [r EXCEPT !.pc = "landscape",
            !.call = [svc |-> "gemini", timeout |-> Num(LandscapeTimeoutMs)],
            !.ai = @ + 1]

\* a call of analyzePatentWithAI that has run up to its await, with what the
\* calls before it left
Started(start, rs) ==
  [key |-> start.key, st |-> start.st, out |-> start.out, ext |-> start.ext,
   failed |-> start.failed, prior |-> CallRecords(rs, start.key)]

\* the fan-out: analyzePatentWithAI is called for each record of the prefix
\* and runs up to its await, one call after the other, before any of them
\* resumes
FanOut(rs, list) ==
  [i \in 1..Min(PrefixSize, Len(list)) |->
     Started(AnalyzeStart(env.gemini, analysisCache, list[i]), rs)]

\* the handler at Promise.all: it waits for the calls of the fan-out, or
\* goes on to the landscape call when none of them waits
Fanned(r, tasks) ==
  LET started == [r EXCEPT !.pc = "fanout", !.tasks = tasks,
                           !.ai = Cardinality({i \in DOMAIN tasks : tasks[i].ext})]
  IN IF AllSettled(tasks) THEN CallLandscape(started) ELSE started

\* the handler from the return of getUSPTOData to its next await or response
ServerAfterUspto(r, got, rs) ==
  LET base == [r EXCEPT !.call = NoCall, !.got = got.error]
  IN IF got.threw THEN
       \* a catch block that throws rejects the handler, which sends nothing
       IF ServerCatch(got.error).threw THEN [base EXCEPT !.pc = "done"]
       ELSE Respond(base, ServerCatch(got.error).status, ServerCatch(got.error).body)
     ELSE IF Len(got.list) = 0 THEN
       Respond(base, 500,
               ErrorBody("USPTO API returned no results. Please try different keywords."))
     ELSE IF env.gemini THEN
       Fanned([base EXCEPT !.patents = got.list], FanOut(rs, got.list))
     ELSE Respond([base EXCEPT !.patents = got.list], 200,
                  SearchBody(PatentsNotConfigured(got.list), LandscapeNotConfigured,
                             Len(got.list)))

\* the requests after getUSPTOData returned to the handler of request id
ServerResume(id, got) ==
  [reqs EXCEPT ![id] = ServerAfterUspto(reqs[id], got, reqs)]

\* the handler up to its first await
ServerReceive(id, body) ==
  /\ variant = "server"
  /\ id = nreq + 1
  /\ reqs[id].pc = "idle"
  /\ nreq' = id
  /\ LET keywords == Get(body, "keywords")
         maxResults == IF Get(body, "maxResults") = Undef THEN Num(20)
                       ELSE Get(body, "maxResults")
         base == [IdleReq EXCEPT !.kind = "search", !.kw = keywords]
     IN IF Truthy(keywords) /\ keywords.t # "string" THEN
          \* keywords.trim is not a function, thrown outside the try block:
          \* the rejection of the async handler is left to the framework
          \E out \in {NoResp, [status |-> 500, body |-> [html |-> "TypeError"]]} :
            reqs' = [reqs EXCEPT ![id] = [base EXCEPT !.pc = "done", !.resp = out]]
        ELSE IF KeywordsBlank(keywords) THEN
          reqs' = [reqs EXCEPT ![id] =
                     Respond(base, 400, ErrorBody("No keywords provided."))]
        ELSE IF env.uspto THEN
          reqs' = [reqs EXCEPT ![id] =
                     [base EXCEPT !.pc = "uspto", !.uspto = 1,
                                  !.call = [svc |-> "uspto", limit |-> maxResults,
                                            timeout |-> Num(UsptoTimeoutMs)]]]
        ELSE reqs' = [reqs EXCEPT ![id] =
                        Respond(base, 500, ErrorBody("USPTO API key not configured."))]
  /\ UNCHANGED <<env, variant, analysisCache, used>>

\* the patent service answers axios.get
ServerUsptoAnswer(id, outcome, rnds) ==
  /\ variant = "server"
  /\ reqs[id].pc = "uspto"
  /\ used.bag + Entries(outcome) <= MaxBag
  /\ used' = [used EXCEPT !.bag = @ + Entries(outcome)]
  /\ reqs' = ServerResume(id, ServerGetUSPTOData(outcome, rnds))
  /\ UNCHANGED <<env, variant, analysisCache, nreq>>

\* axios gives up on the patent service after its timeout
ServerUsptoTimeout(id) ==
  /\ variant = "server"
  /\ reqs[id].pc = "uspto"
  /\ Truthy(reqs[id].call.timeout)
  /\ reqs' = ServerResume(id, ServerGetUSPTOData(TimeoutOutcome, <<>>))
  /\ UNCHANGED <<env, variant, analysisCache, nreq, used>>

\* the i-th analyzePatentWithAI call of request id resumes after its await
ServerAiSettle(id, i, outcome) ==
  /\ variant = "server"
  /\ reqs[id].pc = "fanout"
  /\ i \in DOMAIN reqs[id].tasks
  /\ reqs[id].tasks[i].st = "wait"
  /\ LET f == AnalyzeFinish(outcome)
         tasks == [reqs[id].tasks EXCEPT
                     ![i] = [@ EXCEPT !.st = "done", !.out = f.out,
                                      !.failed = f.failed]]
         settled == [reqs[id] EXCEPT !.tasks = tasks]
     IN /\ analysisCache' =
             IF f.set THEN CacheSet(analysisCache, reqs[id].tasks[i].key, f.out)
             ELSE analysisCache
        /\ reqs' = [reqs EXCEPT ![id] = IF AllSettled(tasks) THEN CallLandscape(settled)
                                        ELSE settled]
  /\ UNCHANGED <<env, variant, nreq, used>>

\* axios gives up on the i-th per-record call after its timeout
ServerAiTimeout(id, i) == ServerAiSettle(id, i, TimeoutOutcome)

\* analyzePatentLandscape resumes after its await and the handler responds
ServerLandscapeSettle(id, outcome) ==
  /\ variant = "server"
  /\ reqs[id].pc = "landscape"
  /\ reqs' = [reqs EXCEPT ![id] =
                Respond(reqs[id], 200,
                        SearchBody(PatentsWithAnalysis(reqs[id].patents, reqs[id].tasks),
                                   LandscapeFinish(outcome), Len(reqs[id].patents)))]
  /\ UNCHANGED <<env, variant, analysisCache, nreq, used>>

\* axios gives up on the landscape call after its timeout
ServerLandscapeTimeout(id) ==
  /\ reqs[id].pc = "landscape"
  /\ Truthy(reqs[id].call.timeout)
  /\ ServerLandscapeSettle(id, TimeoutOutcome)

\* the callback of the deployment's getUSPTOData throws on this entry
EntryThrows(deployment, patent) ==
  IF deployment = "server" THEN ServerEntryThrows(patent)
  ELSE NetlifyEntryThrows(patent)

\* the entries of the list an answer carries that get a record each
Drawn(outcome, deployment) ==
  IF outcome.kind # "ok" \/ outcome.data.t # "object" THEN <<>>
  ELSE IF Get(outcome.data, "patentFileWrapperDataBag").t # "array" THEN <<>>
  ELSE IF \E i \in 1..Len(outcome.data.v.patentFileWrapperDataBag.v) :
            EntryThrows(deployment, outcome.data.v.patentFileWrapperDataBag.v[i])
    THEN <<>>
  ELSE outcome.data.v.patentFileWrapperDataBag.v

\* what the calls of Math.random() yield while an answer is turned into
\* records; the draws made before an entry the callback throws on are lost
\* with the list
RandomDraws(outcome, deployment) ==
  [1..RandomCalls(Drawn(outcome, deployment)) -> Randoms]

ServerNext ==
  \/ \E id \in Reqs, body \in Bodies : ServerReceive(id, body)
  \/ \E id \in Reqs, outcome \in ServerAnswers :
       \E rnds \in RandomDraws(outcome, "server") :
         ServerUsptoAnswer(id, outcome, rnds)
  \/ \E id \in Reqs : ServerUsptoTimeout(id)
  \/ \E id \in Reqs, i \in 1..PrefixSize, outcome \in AiOutcomes(AnalysisTexts) :
       ServerAiSettle(id, i, outcome)
  \/ \E id \in Reqs, i \in 1..PrefixSize : ServerAiTimeout(id, i)
  \/ \E id \in Reqs, outcome \in AiOutcomes(LandscapeTexts) :
       ServerLandscapeSettle(id, outcome)
  \/ \E id \in Reqs : ServerLandscapeTimeout(id)

(***************************************************************************)
(* Serverless function: exports.handler.  The platform invokes the        *)
(* handler for every event; invocations share no state.                   *)
(***************************************************************************)
\* new Date().toISOString()
Now == "2026-10-30T12:00:00.000Z"

\* pagination.limit: Math.min(maxResults, 25)
NetlifyLimit(maxResults) == MathMin(ToNumber(maxResults), LimitCeiling)

\* body: JSON.stringify({patents, insights, metadata})
NetlifySearchBody(r, insights) ==
  [patents |-> [i \in 1..Len(r.patents) |-> Sent(r.patents[i])],
   insights |-> Wire(insights),
   metadata |-> [searchTerm |-> r.kw, resultsCount |-> Len(r.patents),
                 timestamp |-> Now, dataSource |-> "uspto",
                 patentType |-> IF Truthy(r.approved) THEN "approved" ELSE "new"]]

\* the catch block of the handler
NetlifyCatch(r, message) ==
  Respond(r, 500, ErrorBody("Search failed: " \o message))

\* the handler from the return of getUSPTOData to its next await or response
NetlifyAfterUspto(r, got) ==
  LET base == [r EXCEPT !.call = NoCall, !.got = got.error]
  IN IF got.threw THEN NetlifyCatch(base, got.message)
     ELSE IF Len(got.list) = 0 THEN
       Respond(base, 404, ErrorBody("No patents found for the given keywords."))
     ELSE IF env.gemini THEN
       [base EXCEPT !.pc = "insights", !.patents = got.list, !.ai = 1,
                    !.call = [svc |-> "gemini", timeout |-> Undef]]
     ELSE LET kept == [base EXCEPT !.patents = got.list]
          IN Respond(kept, 200, NetlifySearchBody(kept, Null))

\* the handler up to its first await
NetlifyInvoke(id, event) ==
  /\ variant = "netlify"
  /\ id = nreq + 1
  /\ reqs[id].pc = "idle"
  /\ nreq' = id
  /\ reqs' = [reqs EXCEPT ![id] =
       IF event.httpMethod = "OPTIONS" THEN
         [IdleReq EXCEPT !.pc = "done", !.kind = "preflight",
                         !.resp = [status |-> 200, body |-> [raw |-> ""]]]
       ELSE IF event.httpMethod # "POST" THEN
         Respond([IdleReq EXCEPT !.kind = "method"], 405,
                 ErrorBody("Method not allowed"))
       ELSE IF event.body = BadJson THEN
         NetlifyCatch([IdleReq EXCEPT !.kind = "nobody"], "SyntaxError")
       ELSE IF ReadThrows(event.body) THEN
         NetlifyCatch([IdleReq EXCEPT !.kind = "nobody"], "TypeError")
       ELSE
         LET keywords == Get(event.body, "keywords")
             maxResults == IF Get(event.body, "maxResults") = Undef THEN Num(20)
                           ELSE Get(event.body, "maxResults")
             showApproved == IF Get(event.body, "showApproved") = Undef
                               THEN Bool(FALSE)
                             ELSE Get(event.body, "showApproved")
             base == [IdleReq EXCEPT !.kind = "search", !.kw = keywords,
                                     !.approved = showApproved]
         IN IF Truthy(keywords) /\ keywords.t # "string" THEN
              \* keywords.trim is not a function, thrown inside the try block
              NetlifyCatch(base, "keywords.trim is not a function")
            ELSE IF KeywordsBlank(keywords) THEN
              Respond(base, 400, ErrorBody("No keywords provided."))
            ELSE IF ~env.uspto THEN
              Respond(base, 500, ErrorBody("USPTO API key not configured."))
            ELSE [base EXCEPT !.pc = "uspto", !.uspto = 1,
                              !.call = [svc |-> "uspto",
                                        limit |-> NetlifyLimit(maxResults),
                                        timeout |-> Undef]]]
  /\ UNCHANGED <<env, variant, analysisCache, used>>

\* fetch settles: with a response whose status is 2xx getUSPTOData goes on
\* to await response.json(); with another status it throws, and a rejected
\* fetch throws as well
NetlifyFetchAnswer(id, outcome) ==
  /\ variant = "netlify"
  /\ reqs[id].pc = "uspto"
  /\ reqs' = [reqs EXCEPT ![id] =
       IF outcome.kind = "ok" THEN [reqs[id] EXCEPT !.pc = "body"]
       ELSE NetlifyAfterUspto(reqs[id], NetlifyGetUSPTOData(outcome, <<>>))]
  /\ UNCHANGED <<env, variant, analysisCache, nreq, used>>

\* response.json() settles: with the parsed body, or with a SyntaxError for
\* a body that is not JSON
NetlifyBodyAnswer(id, outcome, rnds) ==
  /\ variant = "netlify"
  /\ reqs[id].pc = "body"
  /\ used.bag + Entries(outcome) <= MaxBag
  /\ used' = [used EXCEPT !.bag = @ + Entries(outcome)]
  /\ reqs' = [reqs EXCEPT ![id] =
       NetlifyAfterUspto(reqs[id], NetlifyGetUSPTOData(outcome, rnds))]
  /\ UNCHANGED <<env, variant, analysisCache, nreq>>

\* generatePracticalAnalysis resumes after its await and the handler
\* responds; the text of the response is made of `pieces` pieces
NetlifyInsightsAnswer(id, outcome, pieces) ==
  /\ variant = "netlify"
  /\ reqs[id].pc = "insights"
  /\ used.text + pieces <= MaxTextLen
  /\ used' = [used EXCEPT !.text = @ + pieces]
  /\ reqs' = [reqs EXCEPT ![id] =
       Respond([reqs[id] EXCEPT !.said = outcome], 200,
               NetlifySearchBody(reqs[id],
                                 InsightsFinish(reqs[id].patents, reqs[id].kw.v, outcome)))]
  /\ UNCHANGED <<env, variant, analysisCache, nreq>>

NetlifyNext ==
  \/ \E id \in Reqs, event \in Events : NetlifyInvoke(id, event)
  \/ \E id \in Reqs, outcome \in FetchOutcomes : NetlifyFetchAnswer(id, outcome)
  \/ \E id \in Reqs, outcome \in NetlifyAnswers :
       \E rnds \in RandomDraws(outcome, "netlify") :
         NetlifyBodyAnswer(id, outcome, rnds)
  \/ \E id \in Reqs, answer \in InsightsAnswers :
       NetlifyInsightsAnswer(id, answer[2], answer[1])

Next == ServerNext \/ NetlifyNext

Spec == Init /\ [][Next]_vars

(***************************************************************************)
(* The claims.                                                             *)
(***************************************************************************)
\* a search of the Express server that got past the upstream call with records
ServerEnriched(id) ==
  /\ variant = "server"
  /\ reqs[id].pc = "done"
  /\ Len(reqs[id].patents) >= 1

\* the list the patent service answered the request with
UpstreamBag(id) == Get(reqs[id].got.data, "patentFileWrapperDataBag").v

\* C1: with the AI credential configured and N >= 1 upstream records, the
\* response holds exactly N records; the first min(N, 3), in upstream order,
\* carry an analysis field with what their analyzePatentWithAI call returned,
\* and the remaining max(0, N - 3) carry "Analysis not performed due to rate
\* limiting."
C1_Claim ==
  \A id \in Reqs :
    (ServerEnriched(id) /\ env.gemini) =>
      LET N == Len(UpstreamBag(id))
          out == reqs[id].resp.body.patents
      IN /\ reqs[id].resp.status = 200
         /\ Len(out) = N
         /\ Len(reqs[id].tasks) = Min(N, 3)
         /\ \A i \in 1..N :
              /\ "analysis" \in DOMAIN out[i]
              /\ IF i <= Min(N, 3)
                   THEN /\ reqs[id].tasks[i].key = CacheKey(reqs[id].patents[i])
                        /\ out[i].analysis = reqs[id].tasks[i].out
                   ELSE out[i].analysis = AnalysisRateLimited
         /\ Cardinality({i \in 1..N : /\ "analysis" \in DOMAIN out[i]
                                      /\ out[i].analysis = AnalysisRateLimited})
              = IF N > 3 THEN N - 3 ELSE 0

\* the analyzePatentWithAI calls that have returned
DoneCalls == {c \in Calls(reqs) : reqs[c[1]].tasks[c[2]].st = "done"}

\* C2 as stated: a call of analyzePatentWithAI that starts after an earlier
\* call for the same record content has returned issues no external call
\* unless the earlier one issued none (at most one in total), and returns
\* what the earlier call returned
C2_Original ==
  \A c \in DoneCalls :
    LET t == reqs[c[1]].tasks[c[2]]
    IN \A h \in t.prior : ~(h.ext /\ t.ext) /\ t.out = h.out

\* C2 as amended: when an earlier call for the same record content returned
\* without ending in the failure placeholder, the later call is a cache hit:
\* it issues no external call and returns the value the cache holds, which
\* is the output of an earlier call that did not fail
C2_Amended ==
  \A c \in DoneCalls :
    LET t == reqs[c[1]].tasks[c[2]]
    IN \A h \in t.prior :
         ~h.failed =>
           /\ ~t.ext
           /\ \E g \in t.prior : ~g.failed /\ t.out = g.out

\* a later call that hit the cache an earlier, external call had filled
C2_Witness ==
  \E c \in DoneCalls :
    LET t == reqs[c[1]].tasks[c[2]]
    IN \E h \in t.prior :
         /\ h.ext /\ ~h.failed
         /\ h.out = Str("analysis two")
         /\ ~t.ext
         /\ t.out = h.out

\* a finished search request (not a preflight, not a wrong method)
SearchDone(id) == reqs[id].pc = "done" /\ reqs[id].kind \in {"search", "nobody"}

\* C3: an upstream answer of HTTP 429 ends the search in status 429 with a
\* rate-limit message, an upstream answer of HTTP 401 in status 403 with an
\* authentication-failure message
C3_Claim ==
  \A id \in Reqs :
    (SearchDone(id) /\ reqs[id].got.kind = "http") =>
      /\ reqs[id].got.status = 429 =>
           /\ reqs[id].resp.status = 429
           /\ reqs[id].resp.body = ErrorBody("Rate limit exceeded. Please try again later.")
      /\ reqs[id].got.status = 401 =>
           /\ reqs[id].resp.status = 403
           /\ reqs[id].resp.body =
                ErrorBody("Authentication failed. Please check your API key.")

\* C4: without GEMINI_API_KEY every record of the response of a search that
\* reached enrichment has its analysis field equal to "AI analysis not
\* configured. Please check your Gemini API key.", and the request issued no
\* generative-AI call
C4_Claim ==
  \A id \in Reqs :
    (~env.gemini /\ reqs[id].pc = "done" /\ Len(reqs[id].patents) >= 1) =>
      /\ reqs[id].ai = 0
      /\ \A i \in 1..Len(reqs[id].resp.body.patents) :
           LET rec == reqs[id].resp.body.patents[i]
           IN "analysis" \in DOMAIN rec /\ rec.analysis = AnalysisNotConfigured

\* a response of the search: a 2xx with the patents list, or a 4xx/5xx whose
\* body is a single error string
ProperResponse(resp) ==
  /\ resp.status \in 200..599
  /\ IF resp.status \in 200..299 THEN "patents" \in DOMAIN resp.body
     ELSE DOMAIN resp.body = {"error"} /\ resp.body.error.t = "string"

\* C5: whatever the request body (keywords missing, blank or not a string
\* included), a search request that the handler is done with has been given
\* one response, a 2xx with the patents list or a 4xx/5xx with one error
\* string
C5_Claim == \A id \in Reqs : SearchDone(id) => ProperResponse(reqs[id].resp)

\* C6: once the upstream call returned a non-empty list, the response is a
\* 2xx whatever the AI calls end in (error, timeout, malformed body): each
\* record of the fan-out carries the text its own call produced or the fixed
\* placeholder of a failed call, and so does the landscape
C6_Claim ==
  \A id \in Reqs :
    (ServerEnriched(id) /\ env.gemini) =>
      /\ reqs[id].resp.status = 200
      /\ \A i \in DOMAIN reqs[id].tasks :
           /\ "analysis" \in DOMAIN reqs[id].resp.body.patents[i]
           /\ reqs[id].resp.body.patents[i].analysis = reqs[id].tasks[i].out
           /\ reqs[id].tasks[i].out \in
                {Str(x) : x \in AnalysisTexts} \cup {AnalysisUnavailable}
      /\ "landscape" \in DOMAIN reqs[id].resp.body
      /\ reqs[id].resp.body.landscape \in
           {Str(x) : x \in LandscapeTexts} \cup {LandscapeUnavailable}

\* the keywords of the request are missing (no body, a body that is not
\* JSON, or a body without them), empty or blank after trimming
BlankKeywords(id) ==
  \/ reqs[id].kind = "nobody"
  \/ /\ reqs[id].kind = "search"
     /\ \/ reqs[id].kw \in {Undef, Null}
        \/ reqs[id].kw.t = "string" /\ Trim(reqs[id].kw.v) = ""

\* C7: a search request whose keywords are missing, empty or blank is
\* answered with status 400 and {error: "No keywords provided."} whatever
\* the credentials, and issues no upstream call and no AI call
C7_Claim ==
  \A id \in Reqs :
    (reqs[id].pc # "idle" /\ BlankKeywords(id)) =>
      /\ reqs[id].pc = "done"
      /\ reqs[id].resp = [status |-> 400, body |-> ErrorBody("No keywords provided.")]
      /\ reqs[id].uspto = 0
      /\ reqs[id].ai = 0
      /\ reqs[id].call = NoCall

\* the external calls of a request that are in flight
InFlight(id) ==
  (IF reqs[id].call.svc = "none" THEN {} ELSE {reqs[id].call})
    \cup {[svc |-> "gemini", timeout |-> Num(AiTimeoutMs)] :
            i \in {j \in DOMAIN reqs[id].tasks : reqs[id].tasks[j].st = "wait"}}

\* C8: every external call a search request issues carries an explicit
\* timeout, so that the request cannot wait on it for ever
C8_Claim == \A id \in Reqs : \A c \in InFlight(id) : Truthy(c.timeout)

\* C9: when the upstream list holds a malformed entry the search is not
\* aborted: getUSPTOData returns one record per entry of the list
C9_Claim ==
  \A id \in Reqs :
    (/\ reqs[id].got.kind = "ok"
     /\ Get(reqs[id].got.data, "patentFileWrapperDataBag").t = "array") =>
      Len(reqs[id].patents) = Len(UpstreamBag(id))

\* the six keys of the structured analysis
SchemaKeys ==
  {"techBreakdown", "competitorActivity", "practicalUses", "techMaturity",
   "interestingFindings", "patentStrength"}

\* the text of the AI response cannot be parsed as JSON
Unparseable(text) ==
  ~JsonMatch(text).found \/ JsonParse(JsonMatch(text).str).threw

\* C10: when the text of the AI response cannot be parsed as JSON,
\* generatePracticalAnalysis returns an object with rawAnalysis equal to the
\* text and all six schema keys
C10_Claim ==
  \A id \in Reqs :
    (/\ variant = "netlify" /\ reqs[id].pc = "done"
     /\ reqs[id].said.kind = "ok"
     /\ Unparseable(reqs[id].said.text)) =>
      LET insights == reqs[id].resp.body.insights
      IN /\ insights.t = "object"
         /\ SchemaKeys \subseteq DOMAIN insights.v
         /\ Get(insights, "rawAnalysis") = Str(reqs[id].said.text)

\* C11: whatever maxResults the caller asked for, the limit of the call in
\* flight to the patent-search service is a number not above the ceiling 25
C11_Claim ==
  \A id \in Reqs :
    reqs[id].call.svc = "uspto" =>
      /\ reqs[id].call.limit.t = "number"
      /\ "nan" \notin DOMAIN reqs[id].call.limit
      /\ MathMin(reqs[id].call.limit, LimitCeiling) = reqs[id].call.limit

\* C12: the cache is append-only under every interleaving of the concurrent
\* analyzePatentWithAI calls: in every step, a key that has a value in
\* analysisCache keeps it, the key is not removed and the value is not
\* replaced by a different one
C12_Claim ==
  [][\A k \in DOMAIN analysisCache :
       k \in DOMAIN analysisCache' /\ analysisCache'[k] = analysisCache[k]]_vars

\* the records of a response are the records of the list, field for field,
\* with at most an analysis field added
SameButAnalysis(out, list) ==
  /\ Len(out) = Len(list)
  /\ \A i \in 1..Len(list) :
       /\ DOMAIN list[i] \subseteq DOMAIN out[i]
       /\ DOMAIN out[i] \subseteq DOMAIN list[i] \cup {"analysis"}
       /\ \A f \in DOMAIN list[i] : out[i][f] = list[i][f]

\* C13: enrichment never changes an upstream-sourced field: every step that a
\* request takes, or that another request takes meanwhile, after getUSPTOData
\* returned its list leaves that list as it is, and in the response of a
\* successful search the i-th record equals the i-th record of the list in
\* every field other than analysis
C13_FrameKept ==
  [][\A id \in Reqs :
       /\ (reqs[id].pc \in {"fanout", "landscape", "insights", "done"}) =>
            reqs'[id].patents = reqs[id].patents
       /\ (/\ reqs'[id].pc = "done" /\ reqs'[id].resp.status = 200
           /\ reqs'[id].kind = "search") =>
            SameButAnalysis(reqs'[id].resp.body.patents, reqs'[id].patents)]_vars

\* a successful search of the server over two records, answered after the
\* fan-out and the landscape call: the second record carries a text of the
\* AI service next to its upstream fields
C13_Witness ==
  \E id \in Reqs :
    /\ ServerEnriched(id)
    /\ env.gemini
    /\ Len(reqs[id].patents) = 2
    /\ "analysis" \in DOMAIN reqs[id].resp.body.patents[2]
    /\ reqs[id].resp.body.patents[2].analysis = Str("analysis two")
    /\ reqs[id].resp.body.patents[2].snippet = reqs[id].patents[2].snippet
    /\ reqs[id].patents[2].snippet = Str("No abstract available.")

\* the fixed placeholder strings of analyzePatentWithAI and of the handler
Placeholders ==
  {AnalysisNoKey, AnalysisUnavailable, AnalysisFailed, AnalysisRateLimited,
   AnalysisNotConfigured}

\* C14: a step in which an analyzePatentWithAI call ends in a placeholder
\* leaves analysisCache unchanged, and after every step each value of
\* analysisCache is a text returned by the AI service, never a placeholder
\* (nor anything that is not a text)
C14_Claim ==
  [][/\ \A k \in DOMAIN analysisCache' :
          analysisCache'[k] \in {Str(x) : x \in AnalysisTexts}
     /\ (\E c \in Calls(reqs) :
           /\ reqs[c[1]].tasks[c[2]].st = "wait"
           /\ reqs'[c[1]].tasks[c[2]].st = "done"
           /\ reqs'[c[1]].tasks[c[2]].out \in Placeholders) =>
          analysisCache' = analysisCache]_vars

====
